---------------------------- MODULE Spec2Model ----------------------------
(***************************************************************************)
(* A model of src/main.py: the birth-date estimator.  One run of main()    *)
(* reads a text file, parses gender declarations, parent relationships and *)
(* linear (in)equalities, compiles them into the matrices A_ub, b_ub, A_eq,*)
(* b_eq and calls the LP black box twice (minimise, maximise the target).  *)
(*                                                                         *)
(* Text is modelled at the level of whitespace separated tokens.  A person *)
(* name is the token Id(p): the p-th name in the alphabetical order that   *)
(* c.sort_index() uses.  Loops of the parsers and the ancestor walk are    *)
(* one action per iteration; a raise ends the run in pc = "raised".        *)
(***************************************************************************)
EXTENDS Integers, Sequences, FiniteSets, TLC

(***************************************************************************)
(* Program constants (src/main.py lines 7-26, 261).                        *)
(***************************************************************************)
FATHER_AGE_FOR_BIRTH == <<15, 70>>
MOTHER_AGE_FOR_BIRTH == <<15, 50>>
MAX_AVERAGE_AGE_FOR_05_MALE_GENERATIONS == 60
MAX_AVERAGE_AGE_FOR_10_MALE_GENERATIONS == 45
MAX_AVERAGE_AGE_FOR_05_FEMALE_GENERATIONS == 40
MAX_AVERAGE_AGE_FOR_10_FEMALE_GENERATIONS == 35
\* bounds = (-2000, 2000) in solve(): BOUND is the upper end, -BOUND the lower
BOUND == 2000

(***************************************************************************)
(* Bounds of the model.                                                    *)
(***************************************************************************)
\* free lines that follow the three declarations in the short input files
MaxBody == 2
\* parent links in the longest single line of descent that is read
MaxChain == 11
\* iterations of the ancestor walk explored for one child (the walk of the
\* code has no limit of its own: on a cyclic parent map it never ends)
MaxWalk == 13

(***************************************************************************)
(* Tokens.                                                                 *)
(***************************************************************************)
W(s)    == [k |-> "word",  w |-> s,   n |-> 0]
Id(p)   == [k |-> "id",    w |-> "",  n |-> p]
Neg(p)  == [k |-> "minus", w |-> "-", n |-> p]
Pos(p)  == [k |-> "plus",  w |-> "+", n |-> p]
Num(v)  == [k |-> "int",   w |-> "",  n |-> v]
Op(s)   == [k |-> "op",    w |-> s,   n |-> 0]
Hash    == [k |-> "hash",  w |-> "#", n |-> 0]

Min(a, b) == IF a <= b THEN a ELSE b
SeqRange(s) == {s[i] : i \in DOMAIN s}

\* index of the first '#' token of a line, 0 when there is none
FirstHash(toks) ==
    IF \E i \in DOMAIN toks : toks[i] = Hash
    THEN CHOOSE i \in DOMAIN toks :
            toks[i] = Hash /\ \A h \in 1..(i - 1) : toks[h] # Hash
    ELSE 0

\* line.split('#')[0].strip()
StripComment(toks) ==
    IF FirstHash(toks) = 0 THEN toks ELSE SubSeq(toks, 1, FirstHash(toks) - 1)

\* '<op>' in line, for the substrings '=', '<=' and '>=': the operator
\* tokens are the only tokens of the inputs that hold the character '='
Contains(toks, sub) ==
    \E i \in DOMAIN toks :
        /\ toks[i].k = "op"
        /\ \/ sub = "="
           \/ toks[i].w = sub


(***************************************************************************)
(* Input files read by the model.  A file is a sequence of lines, a line a *)
(* sequence of tokens.  In the short files c is Id(0), f is Id(1), m is    *)
(* Id(2); Id(-1) is a name that no file declares.                          *)
(***************************************************************************)
Decls3 ==
    << <<W("male"), Id(1)>>, <<W("female"), Id(2)>>, <<W("male"), Id(0)>> >>

BodyLines ==
    { <<Id(0), Id(1)>>,                          \* c f
      <<Id(0), Id(2)>>,                          \* c m
      <<Id(1), Id(0)>>,                          \* f c
      <<Id(0), Id(0)>>,                          \* c c
      <<Id(0), Id(-1)>>,                         \* c z
      <<Id(0)>>,                                 \* c
      <<W("male"), Id(1), Id(2)>>,               \* male f m
      <<Id(1), Op("="), Num(1950)>>,             \* f = 1950
      <<Id(0), Neg(1), Op("<="), Num(20)>>,      \* c -f <= 20
      <<Id(0), Op(">="), Num(5)>>,               \* c >= 5
      <<Id(-1), Op("="), Num(5)>>,               \* z = 5
      <<Id(1), Op("="), W("x")>>,                \* f = x
      <<Id(0), Op("<="), Num(1990), Hash, Op(">="), Num(0)>>,
                                                 \* c <= 1990 # >= 0
      <<Hash, W("note")>> }                      \* # note

SeqsUpTo(S, n) == UNION {[1..m -> S] : m \in 0..n}

ShortFiles == {Decls3 \o body : body \in SeqsUpTo(BodyLines, MaxBody)}

\* one child, one father, the father's birth year fixed to Y
FatherYears == {-2000, -1985, 0, 1900, 1930, 1931, 1950, 1985, 1986, 2000}
PairFile(Y) ==
    << <<W("male"), Id(1)>>, <<W("male"), Id(0)>>, <<Id(0), Id(1)>>,
       <<Id(1), Op("="), Num(Y)>> >>

\* the end-to-end scenario of the specification
ScenarioFile ==
    Decls3 \o << <<Id(0), Id(1)>>, <<Id(0), Id(2)>>,
                 <<Id(1), Op("="), Num(1950)>>, <<Id(2), Op("="), Num(1955)>> >>

\* one person whose birth year is boxed into lo..hi by two inequalities
RangeEnds == {<<1900, 1900>>, <<1900, 1901>>, <<1900, 1902>>, <<1900, 1903>>,
              <<1900, 2000>>, <<1970, 2005>>, <<1901, 1900>>}
RangeFile(lo, hi) ==
    << <<W("male"), Id(0)>>, <<Neg(0), Op("<="), Num(-lo)>>,
       <<Pos(0), Op("<="), Num(hi)>> >>

\* a line of descent 0 <- 1 <- ... <- n: person i is the child of i - 1.
\* sexes: "male", "female" or "mixed" (person 6 female, the others male);
\* closed: person 0 is declared the child of person n as well
SexOf(sexes, i) ==
    IF sexes = "mixed" THEN (IF i = 6 THEN "female" ELSE "male") ELSE sexes
ChainFile(n, sexes, closed) ==
    [i \in 1..(n + 1) |-> <<W(SexOf(sexes, i - 1)), Id(i - 1)>>]
    \o [i \in 1..n |-> <<Id(i), Id(i - 1)>>]
    \o (IF closed THEN << <<Id(0), Id(n)>> >> ELSE << >>)

\* what the LP black box is made to return in a solve: 0, the solve runs to
\* completion; otherwise the non-success status it returns instead
\* (scipy.optimize.linprog: 1 iteration limit, 2 infeasible, 3 unbounded,
\* 4 numerical difficulties)
Faults == {0, 1, 2, 3, 4}

Run(t, tg, avg, q, fl) ==
    [text |-> t, target |-> tg, avg |-> avg, q10 |-> q, fault |-> fl]

Inputs ==
    {Run(t, 0, avg, 4, <<0, 0>>) : t \in ShortFiles, avg \in BOOLEAN}
    \cup {Run(Decls3, -1, FALSE, 4, <<0, 0>>)}
    \cup {Run(PairFile(Y), 0, FALSE, 4, <<0, 0>>) : Y \in FatherYears}
    \cup {Run(ScenarioFile, 0, FALSE, 4, <<0, 0>>)}
    \cup {Run(RangeFile(r[1], r[2]), 0, FALSE, q, <<0, 0>>) :
             r \in RangeEnds, q \in {0, 4, 5, 10}}
    \cup {Run(RangeFile(1900, 2000), 0, FALSE, 4, <<f1, f2>>) :
             f1 \in Faults, f2 \in Faults}
    \cup {Run(ChainFile(n, s, FALSE), n, TRUE, 4, <<0, 0>>) :
             n \in 0..MaxChain, s \in {"male", "female", "mixed"}}
    \cup {Run(ChainFile(n, s, TRUE), n, avg, 4, <<0, 0>>) :
             n \in 1..3, s \in {"male", "female"}, avg \in BOOLEAN}

(***************************************************************************)
(* State.                                                                  *)
(***************************************************************************)
VARIABLES
    text,        \* the lines of the data file (f.readlines())
    target,      \* args.target
    ADD_AVERAGE_AGE_CONSTRAINTS,   \* module flag, line 21
    QUANTILE_FROM_LATEST,          \* module constant, line 26, in tenths
    lpFault,     \* per solve: 0, or the status the LP black box gives up with
    pc,          \* the function main() is in
    lines,       \* the (number, line) list the current function iterates
    k,           \* its loop index
    rem_lines,   \* the list the current function collects
    genders,     \* parse_variables' dict: name -> gender
    fathers,     \* dict child -> father, as the sequence of its items
    mothers,     \* dict child -> mother
    A_ub, b_ub, A_eq, b_eq,
    walk,        \* make_average_constraints: pass, child index, j, n_th
    error,       \* the exception raised, << >> while there is none
    out,         \* what solve() printed
    result       \* solve(): statuses and optimal values of the two solves

vars == <<text, target, ADD_AVERAGE_AGE_CONSTRAINTS, QUANTILE_FROM_LATEST,
          lpFault, pc, lines, k, rem_lines, genders, fathers, mothers,
          A_ub, b_ub, A_eq, b_eq, walk, error, out, result>>

config == <<text, target, ADD_AVERAGE_AGE_CONSTRAINTS, QUANTILE_FROM_LATEST,
            lpFault>>
facts == <<genders, fathers, mothers>>
system == <<A_ub, b_ub, A_eq, b_eq>>

NoWalk == [pass |-> "none", ci |-> 0, j |-> 0, n_th |-> << >>]
NoResult == [status |-> << >>, earliest |-> << >>, latest |-> << >>,
             birthdate |-> << >>]

Init ==
    \E in \in Inputs :
        /\ text = in.text
        /\ target = in.target
        /\ ADD_AVERAGE_AGE_CONSTRAINTS = in.avg
        /\ QUANTILE_FROM_LATEST = in.q10
        /\ lpFault = in.fault
        /\ pc = "main"
        /\ lines = << >>
        /\ k = 1
        /\ rem_lines = << >>
        /\ genders = << >>
        /\ fathers = << >>
        /\ mothers = << >>
        /\ A_ub = << >>
        /\ b_ub = << >>
        /\ A_eq = << >>
        /\ b_eq = << >>
        /\ walk = NoWalk
        /\ error = << >>
        /\ out = << >>
        /\ result = NoResult

\* an exception: its class, its message, the line number the message (or
\* the print before a re-raise) carries, and the number of the input line
\* that was being processed
Raise(exc, msg, carried, at) ==
    << [exc |-> exc, msg |-> msg, carried |-> carried, at |-> at] >>

(***************************************************************************)
(* main(), lines 31-35: enumerate the lines from 0 and keep the non-empty  *)
(* ones that do not start with '#'.                                        *)
(***************************************************************************)
RECURSIVE KeepLines(_, _)
KeepLines(t, i) ==
    IF i > Len(t) THEN << >>
    ELSE (IF t[i] # << >> /\ t[i][1] # Hash
          THEN << [num |-> i - 1, line |-> t[i]] >> ELSE << >>)
         \o KeepLines(t, i + 1)

ReadLines ==
    /\ pc = "main"
    /\ lines' = KeepLines(text, 1)
    /\ k' = 1
    /\ pc' = "parse_variables"
    /\ UNCHANGED <<config, rem_lines, facts, system, walk, error, out, result>>

(***************************************************************************)
(* parse_variables, lines 71-85: one iteration of its loop.                *)
(***************************************************************************)
IsDeclaration(line) ==
    /\ Len(line) >= 2
    /\ line[1] \in {W("male"), W("female")}

ParseVariablesLine ==
    /\ pc = "parse_variables"
    /\ k <= Len(lines)
    /\ LET i == lines[k].num
           line == StripComment(lines[k].line)
       IN  IF IsDeclaration(line)
           THEN IF Len(line) # 2
                THEN /\ error' = Raise("ValueError", "unpack", <<i>>, <<i>>)
                     /\ pc' = "raised"
                     /\ UNCHANGED <<k, genders, rem_lines>>
                ELSE /\ genders' =
                          [p \in DOMAIN genders \cup {line[2].n} |->
                              IF p = line[2].n THEN line[1].w ELSE genders[p]]
                     /\ k' = k + 1
                     /\ UNCHANGED <<pc, error, rem_lines>>
           ELSE /\ rem_lines' = Append(rem_lines, [num |-> i, line |-> line])
                /\ k' = k + 1
                /\ UNCHANGED <<pc, error, genders>>
    /\ UNCHANGED <<config, lines, fathers, mothers, system, walk, out, result>>

(***************************************************************************)
(* main(), lines 37-43: parse_variables returned; the target must be a     *)
(* declared name.                                                          *)
(***************************************************************************)
CheckTarget ==
    /\ pc = "parse_variables"
    /\ k > Len(lines)
    /\ IF target \notin DOMAIN genders
       THEN /\ error' = Raise("ValueError", "Target not defined", << >>, << >>)
            /\ pc' = "raised"
            /\ UNCHANGED <<lines, k, rem_lines>>
       ELSE /\ lines' = rem_lines
            /\ rem_lines' = << >>
            /\ k' = 1
            /\ pc' = "parse_relationships"
            /\ UNCHANGED error
    /\ UNCHANGED <<config, facts, system, walk, out, result>>

(***************************************************************************)
(* Python dicts, which keep insertion order, as sequences of items.        *)
(***************************************************************************)
DictHas(d, key) == \E i \in DOMAIN d : d[i][1] = key
DictGet(d, key) ==
    IF DictHas(d, key)
    THEN << d[CHOOSE i \in DOMAIN d : d[i][1] = key][2] >>
    ELSE << >>
DictSet(d, key, val) ==
    IF DictHas(d, key)
    THEN [i \in DOMAIN d |-> IF d[i][1] = key THEN <<key, val>> ELSE d[i]]
    ELSE Append(d, <<key, val>>)

\* name in genders, for the text of one token
InGenders(tok) == tok.k = "id" /\ tok.n \in DOMAIN genders

(***************************************************************************)
(* parse_relationships, lines 88-115: one iteration of its loop.           *)
(***************************************************************************)
\* AlreadyDeclared with the membership test left out
AlreadyDeclared_Unchecked(parents, child) == FALSE

\* lines 108 and 112: child in fathers, child in mothers
AlreadyDeclared(parents, child) == DictHas(parents, child)

ParseRelationshipsLine ==
    /\ pc = "parse_relationships"
    /\ k <= Len(lines)
    /\ LET i == lines[k].num
           line == StripComment(lines[k].line)
           fail(exc, msg) ==
               /\ error' = Raise(exc, msg, <<i>>, <<i>>)
               /\ pc' = "raised"
               /\ UNCHANGED <<k, rem_lines, fathers, mothers>>
       IN  IF Contains(lines[k].line, "=")
           THEN /\ rem_lines' = Append(rem_lines, lines[k])
                /\ k' = k + 1
                /\ UNCHANGED <<pc, error, fathers, mothers>>
           ELSE IF Len(line) # 2
           THEN fail("ValueError", "unpack")
           ELSE IF ~InGenders(line[1])
           THEN fail("ValueError", "Child not declared")
           ELSE IF ~InGenders(line[2])
           THEN fail("ValueError", "Parent not declared")
           ELSE IF genders[line[2].n] = "male"
           THEN IF AlreadyDeclared(fathers, line[1].n)
                THEN fail("Exception", "Father declared multiple times")
                ELSE /\ fathers' = DictSet(fathers, line[1].n, line[2].n)
                     /\ k' = k + 1
                     /\ UNCHANGED <<pc, error, rem_lines, mothers>>
           ELSE IF AlreadyDeclared(mothers, line[1].n)
                THEN fail("Exception", "Mother declared multiple times")
                ELSE /\ mothers' = DictSet(mothers, line[1].n, line[2].n)
                     /\ k' = k + 1
                     /\ UNCHANGED <<pc, error, rem_lines, fathers>>
    /\ UNCHANGED <<config, lines, genders, system, walk, out, result>>

(***************************************************************************)
(* The rows of A_ub and A_eq: a coefficient for every column of c.index.   *)
(***************************************************************************)
\* c.index: the declared names, sorted
RECURSIVE SortedSeq(_)
SortedSeq(S) ==
    IF S = {} THEN << >>
    ELSE LET lo == CHOOSE x \in S : \A y \in S : x <= y
         IN  <<lo>> \o SortedSeq(S \ {lo})
c_index == SortedSeq(DOMAIN genders)

\* A.loc[i] = 0
ZeroRow == [v \in DOMAIN genders |-> 0]
\* A[name].loc[i] = coef
SetCoef(row, name, coef) == [row EXCEPT ![name] = coef]

(***************************************************************************)
(* make_relationship_constraints, lines 124-152.                           *)
(***************************************************************************)
\* the two rows of one relationship, lines 129-138 and 140-150
AgeGapRows(child, parent, ages) ==
    << [row |-> SetCoef(SetCoef(ZeroRow, child, 1), parent, -1),
        b   |-> ages[2]],
       [row |-> SetCoef(SetCoef(ZeroRow, child, -1), parent, 1),
        b   |-> ages[1] * (-1)] >>

RECURSIVE RelationshipRows(_, _)
RelationshipRows(parents, ages) ==
    IF parents = << >> THEN << >>
    ELSE AgeGapRows(parents[1][1], parents[1][2], ages)
         \o RelationshipRows(Tail(parents), ages)

make_relationship_constraints ==
    RelationshipRows(fathers, FATHER_AGE_FOR_BIRTH)
    \o RelationshipRows(mothers, MOTHER_AGE_FOR_BIRTH)

\* lines 46-50 of main(): parse_relationships returned
MakeRelationshipConstraints ==
    /\ pc = "parse_relationships"
    /\ k > Len(lines)
    /\ LET rows == make_relationship_constraints
       IN  /\ A_ub' = [r \in DOMAIN rows |-> rows[r].row]
           /\ b_ub' = [r \in DOMAIN rows |-> rows[r].b]
    /\ lines' = rem_lines
    /\ rem_lines' = << >>
    /\ k' = 1
    /\ IF ADD_AVERAGE_AGE_CONSTRAINTS
       THEN /\ pc' = "make_average_constraints"
            /\ walk' = [pass |-> "male", ci |-> 1, j |-> 0,
                        n_th |-> <<c_index[1]>>]
       ELSE /\ pc' = "parse_inequalities"
            /\ UNCHANGED walk
    /\ UNCHANGED <<config, facts, A_eq, b_eq, error, out, result>>

(***************************************************************************)
(* make_average_constraints, lines 155-207: one iteration of the           *)
(* `while True` of the male pass (lines 163-181) or of the female pass     *)
(* (lines 188-206).                                                        *)
(***************************************************************************)
\* lines 168 and 174: whether the ancestor at distance j gets a row
AddsAverageRow(j) == j >= 5

\* AverageBound with the ten-generation ceiling not scaled by the distance
AverageBound_Flat(avg5, avg10, j) ==
    IF j >= 10 THEN avg10 * 10 ELSE Min(avg5 * j, avg10 * 10)

\* lines 173 and 179-181: the bound of the row of the ancestor at distance j
AverageBound(avg5, avg10, j) ==
    IF j >= 10 THEN avg10 * j ELSE Min(avg5 * j, avg10 * 10)

AverageStep(pass, parents, avg5, avg10) ==
    /\ pc = "make_average_constraints"
    /\ walk.pass = pass
    /\ walk.j < MaxWalk
    /\ LET child == c_index[walk.ci]
           j == walk.j + 1
           n_th == DictGet(parents, walk.n_th[1])
       IN  IF n_th = << >>
           THEN \* break: the next child, the next pass, or return
                /\ UNCHANGED <<A_ub, b_ub>>
                /\ IF walk.ci < Len(c_index)
                   THEN /\ walk' = [pass |-> pass, ci |-> walk.ci + 1, j |-> 0,
                                    n_th |-> <<c_index[walk.ci + 1]>>]
                        /\ pc' = pc
                   ELSE IF pass = "male"
                   THEN /\ walk' = [pass |-> "female", ci |-> 1, j |-> 0,
                                    n_th |-> <<c_index[1]>>]
                        /\ pc' = pc
                   ELSE /\ walk' = [walk EXCEPT !.j = j, !.n_th = n_th]
                        /\ pc' = "parse_inequalities"
           ELSE /\ walk' = [walk EXCEPT !.j = j, !.n_th = n_th]
                /\ pc' = pc
                /\ IF AddsAverageRow(j)
                   THEN /\ A_ub' = Append(A_ub,
                               SetCoef(SetCoef(ZeroRow, child, 1), n_th[1], -1))
                        /\ b_ub' = Append(b_ub, AverageBound(avg5, avg10, j))
                   ELSE UNCHANGED <<A_ub, b_ub>>
    /\ UNCHANGED <<config, lines, k, rem_lines, facts, A_eq, b_eq, error, out,
                   result>>

AverageMaleStep ==
    AverageStep("male", fathers, MAX_AVERAGE_AGE_FOR_05_MALE_GENERATIONS,
                MAX_AVERAGE_AGE_FOR_10_MALE_GENERATIONS)

AverageFemaleStep ==
    AverageStep("female", mothers, MAX_AVERAGE_AGE_FOR_05_FEMALE_GENERATIONS,
                MAX_AVERAGE_AGE_FOR_10_FEMALE_GENERATIONS)

(***************************************************************************)
(* parse_inequalities, lines 210-257: one iteration of its loop.           *)
(***************************************************************************)
\* line.split(op), for op '<=' or '=': the places where the text op occurs
\* (the character '=' occurs in every operator token)
OpPositions(line, op) ==
    {p \in DOMAIN line : line[p].k = "op" /\ (op = "=" \/ line[p].w = op)}

\* what line.split('=') leaves of the token '<=' or '>=' it splits in
Residue(tok, op) ==
    IF tok.w = op THEN << >>
    ELSE IF tok.w = ">=" THEN << W(">") >> ELSE << W("<") >>

\* lines 229-237 and 246-254: the coefficients of the items, in order; a
\* name that is no column of the frame is a KeyError
RECURSIVE ApplyItems(_, _)
ApplyItems(row, items) ==
    IF items = << >> THEN [row |-> row, ok |-> TRUE]
    ELSE LET item == Head(items)
         IN  IF item.k \in {"id", "minus", "plus"} /\ item.n \in DOMAIN genders
             THEN ApplyItems(
                      SetCoef(row, item.n, IF item.k = "minus" THEN -1 ELSE 1),
                      Tail(items))
             ELSE [row |-> row, ok |-> FALSE]

\* int(second)
IsInt(second) == Len(second) = 1 /\ second[1].k = "int"

\* Unsupported with the test for '>=' left out
Unsupported_Unchecked(line) == FALSE

\* lines 220-221: the rejected operator
Unsupported(line) == Contains(line, ">=")

\* lines 223-238 (A, b = A_ub, b_ub, op = '<=') and 240-255 (A_eq, b_eq, '=')
ExpressionRow(A, b, line, op) ==
    LET at == OpPositions(line, op)
        p == CHOOSE x \in at : TRUE
        first == SubSeq(line, 1, p - 1) \o Residue(line[p], op)
        second == SubSeq(line, p + 1, Len(line))
        items == ApplyItems(ZeroRow, first)
    IN  IF Cardinality(at) # 1
        THEN [A |-> A, b |-> b, exc |-> "ValueError", msg |-> "unpack"]
        ELSE IF ~items.ok
        THEN [A |-> Append(A, items.row), b |-> b, exc |-> "KeyError",
              msg |-> "name"]
        ELSE IF ~IsInt(second)
        THEN [A |-> Append(A, items.row), b |-> b, exc |-> "ValueError",
              msg |-> "invalid literal for int()"]
        ELSE [A |-> Append(A, items.row), b |-> Append(b, second[1].n),
              exc |-> "", msg |-> ""]

ParseInequalitiesLine ==
    /\ pc = "parse_inequalities"
    /\ k <= Len(lines)
    /\ LET l == lines[k].num
           line == StripComment(lines[k].line)
           i == Len(b_ub) - 1
           ub == ExpressionRow(A_ub, b_ub, line, "<=")
           eq == ExpressionRow(A_eq, b_eq, line, "=")
       IN  IF ~Contains(line, "=")
           THEN /\ error' = Raise("Exception", "No equality found", <<i>>, <<l>>)
                /\ pc' = "raised"
                /\ UNCHANGED <<k, system>>
           ELSE IF Unsupported(line)
           THEN /\ error' = Raise("Exception", ">= not allowed", <<i>>, <<l>>)
                /\ pc' = "raised"
                /\ UNCHANGED <<k, system>>
           ELSE IF Contains(line, "<=")
           THEN /\ A_ub' = ub.A
                /\ b_ub' = ub.b
                /\ UNCHANGED <<A_eq, b_eq>>
                /\ IF ub.exc # ""
                   THEN /\ error' = Raise(ub.exc, ub.msg, << >>, <<l>>)
                        /\ pc' = "raised"
                        /\ UNCHANGED k
                   ELSE /\ k' = k + 1
                        /\ UNCHANGED <<pc, error>>
           ELSE /\ A_eq' = eq.A
                /\ b_eq' = eq.b
                /\ UNCHANGED <<A_ub, b_ub>>
                /\ IF eq.exc # ""
                   THEN /\ error' = Raise(eq.exc, eq.msg, << >>, <<l>>)
                        /\ pc' = "raised"
                        /\ UNCHANGED k
                   ELSE /\ k' = k + 1
                        /\ UNCHANGED <<pc, error>>
    /\ UNCHANGED <<config, lines, rem_lines, facts, walk, out, result>>

(***************************************************************************)
(* The LP black box, optimize.linprog(c, A_ub, b_ub, A_eq, b_eq, bounds)   *)
(* as called on lines 266-275 and 291-300, by its contract: status 2 when  *)
(* no x satisfies A_ub x <= b_ub, A_eq x = b_eq, -BOUND <= x <= BOUND, and *)
(* otherwise status 0 with the least value of c.x.  Every row the inputs   *)
(* of this model compile to has at most one +1 and at most one -1, so the  *)
(* system is one of difference constraints: it is feasible iff its         *)
(* constraint graph has no negative cycle, and the extreme values of a     *)
(* variable are shortest-path distances from and to the node of the        *)
(* constant 0 (which are integers, so round() leaves them as they are).    *)
(***************************************************************************)
IsDifferenceRow(row) ==
    /\ Cardinality({v \in DOMAIN row : row[v] = 1}) <= 1
    /\ Cardinality({v \in DOMAIN row : row[v] = -1}) <= 1

MinOf(S) == CHOOSE x \in S : \A y \in S : x <= y
MaxOf(S) == CHOOSE x \in S : \A y \in S : x >= y

\* the node of the constant 0
ZeroNode == MaxOf(DOMAIN genders) + 1
Nodes == DOMAIN genders \cup {ZeroNode}

\* row . x <= b as the edge  from -> to  of weight b:  x[to] - x[from] <= b
Edge(row, b) ==
    LET plus == {v \in DOMAIN row : row[v] = 1}
        minus == {v \in DOMAIN row : row[v] = -1}
    IN  [from |-> IF minus = {} THEN ZeroNode ELSE CHOOSE v \in minus : TRUE,
         to   |-> IF plus = {} THEN ZeroNode ELSE CHOOSE v \in plus : TRUE,
         w    |-> b]

Edges ==
    {Edge(A_ub[r], b_ub[r]) : r \in DOMAIN A_ub}
    \cup {Edge(A_eq[r], b_eq[r]) : r \in DOMAIN A_eq}
    \cup {[from |-> Edge(A_eq[r], b_eq[r]).to,
           to   |-> Edge(A_eq[r], b_eq[r]).from,
           w    |-> -b_eq[r]] : r \in DOMAIN A_eq}

\* bounds = (-2000, 2000): every variable within BOUND of the constant 0
BoxWeight(u, v) ==
    IF u = v THEN 0 ELSE IF ZeroNode \in {u, v} THEN BOUND ELSE 2 * BOUND

Weights ==
    [p \in Nodes \X Nodes |->
        MinOf({BoxWeight(p[1], p[2])}
              \cup {e.w : e \in {x \in Edges : x.from = p[1] /\ x.to = p[2]}})]

RECURSIVE ShortestPaths(_, _)
ShortestPaths(d, through) ==
    IF through = {} THEN d
    ELSE LET m == CHOOSE x \in through : TRUE
             d2 == [p \in Nodes \X Nodes |->
                       Min(d[p], d[<<p[1], m>>] + d[<<m, p[2]>>])]
         \* d2 = d2 is TRUE: the comparison makes TLC tabulate d2 once
         \* instead of re-evaluating it at every lookup
         IN  IF d2 = d2 THEN ShortestPaths(d2, through \ {m}) ELSE d

\* sign = 1: minimise x[target]; sign = -1: minimise -x[target]
linprog(sign) ==
    LET d == ShortestPaths(Weights, Nodes)
    IN  IF \E u \in Nodes : d[<<u, u>>] < 0
        THEN [status |-> 2, fun |-> 0]
        ELSE [status |-> 0,
              fun |-> IF sign = 1 THEN -d[<<target, ZeroNode>>]
                      ELSE -d[<<ZeroNode, target>>]]

\* the n-th call: the black box gives up with lpFault[n] when that is not 0
Solve(n, sign) ==
    IF lpFault[n] # 0 THEN [status |-> lpFault[n], fun |-> 0]
    ELSE linprog(sign)

(***************************************************************************)
(* solve(), lines 260-320.                                                 *)
(***************************************************************************)
Say(msg, args) == [msg |-> msg, args |-> args]

\* StatusMessage with status 3 falling into the branch of status 2
StatusMessage_Merged(status) ==
    IF status = 1
    THEN << Say("Max iterations reached. Try with larger value.", << >>) >>
    ELSE IF status \in {2, 3}
    THEN << Say("Problem appears to be infeasible.", << >>) >>
    ELSE IF status = 4
    THEN << Say("Numerical difficulties encountered.", << >>) >>
    ELSE << >>

\* lines 278-285 and 303-310
StatusMessage(status) ==
    IF status = 1
    THEN << Say("Max iterations reached. Try with larger value.", << >>) >>
    ELSE IF status = 2
    THEN << Say("Problem appears to be infeasible.", << >>) >>
    ELSE IF status = 3
    THEN << Say("Problem appears to be unbounded.", << >>) >>
    ELSE IF status = 4
    THEN << Say("Numerical difficulties encountered.", << >>) >>
    ELSE << >>

\* Python's round() of num / 10: to the nearest integer, a tie to the even one
Round10(num) ==
    LET lo == num \div 10
        r == num % 10
    IN  IF r < 5 THEN lo
        ELSE IF r > 5 THEN lo + 1
        ELSE IF lo % 2 = 0 THEN lo ELSE lo + 1

\* PointEstimate over the span late - early, as the comment of lines 24-25
\* words it, instead of late - early - 1
PointEstimate_WholeSpan(early, late, q10) ==
    Round10(10 * late - (late - early) * q10)

\* line 318, with QUANTILE_FROM_LATEST = q10 / 10
PointEstimate(early, late, q10) ==
    Round10(10 * late - (late - early - 1) * q10)

\* lines 265-287: parse_inequalities returned; the first solve
SolveEarliest ==
    /\ pc = "parse_inequalities"
    /\ k > Len(lines)
    /\ LET res == Solve(1, 1)
       IN  IF res.status # 0
           THEN /\ out' = << Say("Could not find the earliest date.", << >>) >>
                           \o StatusMessage(res.status)
                /\ result' = [result EXCEPT !.status = <<res.status>>]
                /\ pc' = "done"
           ELSE /\ result' = [result EXCEPT !.status = <<res.status>>,
                                            !.earliest = <<res.fun>>]
                /\ pc' = "solve_latest"
                /\ UNCHANGED out
    /\ UNCHANGED <<config, lines, k, rem_lines, facts, system, walk, error>>

\* lines 289-320: the second solve and the report
SolveLatest ==
    /\ pc = "solve_latest"
    /\ LET res == Solve(2, -1)
           early == result.earliest[1]
           late == res.fun * (-1)
       IN  IF res.status # 0
           THEN /\ out' = << Say("Could not find the latest date.", << >>) >>
                           \o StatusMessage(res.status)
                /\ result' = [result EXCEPT !.status = @ \o <<res.status>>]
           ELSE /\ result' =
                      [result EXCEPT
                          !.status = @ \o <<res.status>>,
                          !.latest = <<late>>,
                          !.birthdate =
                              IF early # late
                              THEN <<PointEstimate(early, late,
                                                   QUANTILE_FROM_LATEST)>>
                              ELSE << >>]
                /\ out' =
                      << Say("Possible range for birth", <<early, late>>) >>
                      \o (IF early # late
                          THEN << Say("Estimated date of birth",
                                      <<PointEstimate(early, late,
                                                      QUANTILE_FROM_LATEST)>>) >>
                          ELSE << >>)
    /\ pc' = "done"
    /\ UNCHANGED <<config, lines, k, rem_lines, facts, system, walk, error>>

Next ==
    \/ ReadLines
    \/ ParseVariablesLine
    \/ CheckTarget
    \/ ParseRelationshipsLine
    \/ MakeRelationshipConstraints
    \/ AverageMaleStep
    \/ AverageFemaleStep
    \/ ParseInequalitiesLine
    \/ SolveEarliest
    \/ SolveLatest

Spec == Init /\ [][Next]_vars

(***************************************************************************)
(* What the claims are stated over.                                        *)
(***************************************************************************)
\* the relationships recorded, fathers first: child, parent, minAge, maxAge
Relationships ==
    [r \in 1..Len(fathers) |->
        [child |-> fathers[r][1], parent |-> fathers[r][2],
         minAge |-> 15, maxAge |-> 70]]
    \o [r \in 1..Len(mothers) |->
        [child |-> mothers[r][1], parent |-> mothers[r][2],
         minAge |-> 15, maxAge |-> 50]]

\* make_relationship_constraints has returned
Compiled ==
    pc \in {"make_average_constraints", "parse_inequalities", "solve_latest",
            "done"}

\* ... and nothing has been added to its rows yet
JustCompiled ==
    \/ pc = "parse_inequalities" /\ k = 1 /\ ~ADD_AVERAGE_AGE_CONSTRAINTS
    \/ pc = "make_average_constraints" /\ walk.pass = "male" /\ walk.ci = 1
       /\ walk.j = 0

RECURSIVE Sum(_, _)
Sum(S, f) ==
    IF S = {} THEN 0
    ELSE LET v == CHOOSE x \in S : TRUE IN f[v] + Sum(S \ {v}, f)
Dot(row, x) == Sum(DOMAIN row, [v \in DOMAIN row |-> row[v] * x[v]])

\* birth years to try a pair of rows on
Years == {-15, 0, 14, 15, 50, 51, 70, 71}

Said(msg) == \E i \in DOMAIN out : out[i].msg = msg
SaidWith(msg, args) == \E i \in DOMAIN out : out[i] = Say(msg, args)
FaultFree == lpFault = <<0, 0>>

(***************************************************************************)
(* C1.  Every accepted relationship (child, parent) compiles to exactly    *)
(* two rows: +1 on child, -1 on parent, 0 elsewhere, bound maxAge; and -1  *)
(* on child, +1 on parent, 0 elsewhere, bound -minAge.  When it is the     *)
(* only relationship, birth years satisfy the rows iff                     *)
(* minAge <= child - parent <= maxAge.                                     *)
(***************************************************************************)
C1_TwoRowsPerRelationship ==
    Compiled =>
        /\ JustCompiled => Len(A_ub) = 2 * Len(Relationships)
        /\ \A r \in DOMAIN Relationships :
              LET rel == Relationships[r]
                  up == A_ub[2 * r - 1]
                  down == A_ub[2 * r]
              IN  /\ up[rel.child] = 1 /\ up[rel.parent] = -1
                  /\ \A v \in DOMAIN up \ {rel.child, rel.parent} : up[v] = 0
                  /\ b_ub[2 * r - 1] = rel.maxAge
                  /\ down[rel.child] = -1 /\ down[rel.parent] = 1
                  /\ \A v \in DOMAIN down \ {rel.child, rel.parent} : down[v] = 0
                  /\ b_ub[2 * r] = -rel.minAge
        /\ Len(Relationships) = 1 =>
              LET rel == Relationships[1]
              IN  \A x \in [DOMAIN genders -> Years] :
                     (Dot(A_ub[1], x) <= b_ub[1] /\ Dot(A_ub[2], x) <= b_ub[2])
                     <=> (/\ rel.minAge <= x[rel.child] - x[rel.parent]
                          /\ x[rel.child] - x[rel.parent] <= rel.maxAge)

(***************************************************************************)
(* C2.  One child/father relationship, the father's birth year fixed to Y  *)
(* by an equality, nothing else: solving for the child gives earliest      *)
(* Y + 15 and latest Y + 70, for every Y of the box -2000..2000.           *)
(***************************************************************************)
C2_FatherRoundTrip ==
    \A Y \in FatherYears :
        (text = PairFile(Y) /\ target = 0 /\ FaultFree /\ pc = "done") =>
            /\ result.earliest = <<Y + 15>>
            /\ result.latest = <<Y + 70>>
            /\ SaidWith("Possible range for birth", <<Y + 15, Y + 70>>)

(***************************************************************************)
(* C3.  male f, female m, male c; c f; c m; f = 1950; m = 1955; target c,  *)
(* default configuration: the range reported is 1970 - 2005 and the point  *)
(* estimate 1991.                                                          *)
(***************************************************************************)
C3_Scenario ==
    (/\ text = ScenarioFile /\ target = 0 /\ FaultFree
     /\ ~ADD_AVERAGE_AGE_CONSTRAINTS /\ QUANTILE_FROM_LATEST = 4
     /\ pc = "done") =>
        /\ SaidWith("Possible range for birth", <<1970, 2005>>)
        /\ SaidWith("Estimated date of birth", <<1991>>)

(***************************************************************************)
(* C4 as claimed.  After two successful solves the point estimate is the   *)
(* single year earliest when earliest = latest, whatever the quantile q,   *)
(* and round(latest - (latest - earliest - 1) * q) when earliest < latest; *)
(* for the range 1900 - 2000 and q = 0.4 it is 1960.                       *)
(***************************************************************************)
BothSolved == pc = "done" /\ result.status = <<0, 0>>

\* b = round(num / 10): the nearest integer, a tie going to the even one
IsRounded10(b, num) ==
    /\ 10 * b - num <= 5
    /\ num - 10 * b <= 5
    /\ (10 * b - num = 5 \/ num - 10 * b = 5) => b % 2 = 0

\* the estimate b of a range of more than one year
QuantileEstimate(b) ==
    LET early == result.earliest[1]
        late == result.latest[1]
    IN  /\ IsRounded10(b, 10 * late - (late - early - 1) * QUANTILE_FROM_LATEST)
        /\ (early = 1900 /\ late = 2000 /\ QUANTILE_FROM_LATEST = 4) => b = 1960

OutcomeText(status) ==
    CASE status = 1 -> "Max iterations reached. Try with larger value."
      [] status = 2 -> "Problem appears to be infeasible."
      [] status = 3 -> "Problem appears to be unbounded."
      [] status = 4 -> "Numerical difficulties encountered."

\* exactly the outcome of status is among what was printed
OnlyOutcome(status) ==
    \A s \in 1..4 : Said(OutcomeText(s)) <=> s = status

C5_SolveOutcomes ==
    /\ (Said("Possible range for birth") \/ Said("Estimated date of birth"))
          => BothSolved
    /\ (pc = "done" /\ Len(result.status) = 1) =>
          /\ result.status[1] \in 1..4
          /\ out[1].msg = "Could not find the earliest date."
          /\ OnlyOutcome(result.status[1])
          /\ ~Said("Could not find the latest date.")
          /\ Len(out) = 2
    /\ (pc = "done" /\ Len(result.status) = 2) =>
          /\ result.status[1] = 0
          /\ result.status[2] # 0 =>
                /\ result.status[2] \in 1..4
                /\ out[1].msg = "Could not find the latest date."
                /\ OnlyOutcome(result.status[2])
                /\ ~Said("Could not find the earliest date.")
                /\ Len(out) = 2
          /\ result.status[2] = 0 =>
                /\ \A s \in 1..4 : ~Said(OutcomeText(s))
                /\ Said("Possible range for birth")
    /\ pc = "done" => Len(result.status) \in {1, 2}

C5_Witness ==
    /\ pc = "done"
    /\ result.status = <<0, 3>>
    /\ Said("Problem appears to be unbounded.")

(***************************************************************************)
(* C6.  A relationship line that names a male parent for a child that      *)
(* already has a recorded father (or a female parent for a child that      *)
(* already has a recorded mother) aborts parse_relationships with a        *)
(* duplicate-parent error carrying the number of that second line; so in   *)
(* every fact set that parsing returns no child got two fathers or two     *)
(* mothers.                                                                *)
(***************************************************************************)
\* the relationship lines parse_relationships has gone past
Accepted ==
    {a \in 1..(k - 1) : a <= Len(lines) /\ ~Contains(lines[a].line, "=")}
ChildOf(a) == lines[a].line[1].n
ParentOf(a) == lines[a].line[2].n
Recorded(a) ==
    IF genders[ParentOf(a)] = "male" THEN DictGet(fathers, ChildOf(a))
    ELSE DictGet(mothers, ChildOf(a))
\* line a and line b give the same child a parent of the same sex
SameParentSlot(a, b) ==
    /\ ChildOf(a) = ChildOf(b)
    /\ genders[ParentOf(a)] = genders[ParentOf(b)]

DuplicateRaised ==
    /\ error # << >>
    /\ error[1].msg \in {"Father declared multiple times",
                         "Mother declared multiple times"}

C6_DuplicateParent ==
    /\ pc = "parse_relationships" =>
          /\ \A a \in Accepted : Recorded(a) = <<ParentOf(a)>>
          /\ \A a, b \in Accepted : SameParentSlot(a, b) => a = b
    /\ DuplicateRaised =>
          /\ pc = "raised"
          /\ error[1].carried = <<lines[k].num>>
          /\ lines[k].line = StripComment(text[lines[k].num + 1])
          /\ \E a \in Accepted : SameParentSlot(a, k)
          /\ error[1].msg = "Father declared multiple times"
                <=> genders[ParentOf(k)] = "male"

C6_Witness ==
    /\ DuplicateRaised
    /\ error[1].msg = "Father declared multiple times"
    /\ \E a \in Accepted : ParentOf(a) # ParentOf(k)

(***************************************************************************)
(* C7 as claimed.  Any input line that contains `>=` makes the run fail    *)
(* before any solve, and never adds a row to the constraint system.        *)
(***************************************************************************)
\* main() keeps the line: it is not empty and does not start with '#'
Kept(raw) == raw # << >> /\ raw[1] # Hash
Solving == pc \in {"solve_latest", "done"}

C7_Unsupported_AsClaimed ==
    (\E n \in DOMAIN text : Kept(text[n]) /\ Contains(text[n], ">="))
        => ~Solving

(***************************************************************************)
(* C7 as amended.  With an input line that is not a gender declaration and *)
(* whose text before an inline `#` comment contains `>=`, the run never    *)
(* reaches a solve and prints no outcome; when parse_inequalities reaches  *)
(* the line it raises the fatal error and adds no inequality row and no    *)
(* equality row (a `>=` inside a comment is ignored).                      *)
(***************************************************************************)
UsesGe(raw) ==
    /\ Kept(raw)
    /\ ~IsDeclaration(StripComment(raw))
    /\ Contains(StripComment(raw), ">=")

C7_NeverSolved ==
    (\E n \in DOMAIN text : UsesGe(text[n])) => (~Solving /\ out = << >>)

C7_NoRowAdded ==
    (/\ pc = "parse_inequalities" /\ k <= Len(lines)
     /\ UsesGe(text[lines[k].num + 1]))
        => (pc' = "raised" /\ UNCHANGED system)

C7_Unsupported == [] C7_NeverSolved /\ [][C7_NoRowAdded]_vars

C7_Witness ==
    /\ error # << >>
    /\ error[1].msg = ">= not allowed"
    /\ UsesGe(text[error[1].at[1] + 1])
    /\ Len(A_ub) + Len(A_eq) > 0

(***************************************************************************)
(* C8.  Every fatal parse or compile error (malformed declaration or       *)
(* relationship, undeclared name in a relationship or in an expression,    *)
(* duplicate parent, `>=` used, expression line without `=`, non-integer   *)
(* right-hand side) carries the number of the input line that caused it.   *)
(***************************************************************************)
C8_ErrorsCarryLine ==
    (error # << >> /\ error[1].at # << >>) =>
        error[1].carried = error[1].at

(***************************************************************************)
(* C9.  Whenever the accepted parent relationships contain a cycle (a      *)
(* person declared their own parent included), under any configuration,    *)
(* the run terminates and reports the Infeasible outcome, never a range.   *)
(***************************************************************************)
ParentPairs ==
    {<<fathers[r][1], fathers[r][2]>> : r \in DOMAIN fathers}
    \cup {<<mothers[r][1], mothers[r][2]>> : r \in DOMAIN mothers}

RECURSIVE AncestorsOf(_)
AncestorsOf(S) ==
    LET up == S \cup {pr[2] : pr \in {x \in ParentPairs : x[1] \in S}}
    IN  IF up = S THEN S ELSE AncestorsOf(up)

HasCycle == \E pr \in ParentPairs : pr[1] \in AncestorsOf({pr[2]})

C9_CycleInfeasible ==
    HasCycle =>
        /\ ~Said("Possible range for birth")
        /\ pc = "done" => /\ result.status = <<2>>
                          /\ Said("Problem appears to be infeasible.")
        \* a walk up the ancestors that ends visits no person twice
        /\ walk.j <= Cardinality(DOMAIN genders)

(***************************************************************************)
(* C10 as claimed.  With the average-age constraints enabled,              *)
(* make_average_constraints walks each variable's father-only and          *)
(* mother-only chain at most 10 steps: a row                               *)
(* child - ancestor <= min(avg5 * j, avg10 * 10) for each ancestor at      *)
(* distance j in 5..9, a row child - ancestor <= avg10 * j for the         *)
(* ancestor at distance 10, and no row for an ancestor at a distance       *)
(* below 5 or above 10.                                                    *)
(***************************************************************************)
\* make_average_constraints has returned and nothing was added since
AverageReturned ==
    pc = "parse_inequalities" /\ k = 1 /\ ADD_AVERAGE_AGE_CONSTRAINTS

\* the rows it appended to those of make_relationship_constraints
AverageRows ==
    [r \in 1..(Len(A_ub) - 2 * Len(Relationships)) |->
        <<A_ub[2 * Len(Relationships) + r], b_ub[2 * Len(Relationships) + r]>>]

\* the ancestor of x at distance j along one parent map, << >> if none
RECURSIVE NthAncestor(_, _, _)
NthAncestor(parents, x, j) ==
    IF j = 0 THEN <<x>>
    ELSE LET below == NthAncestor(parents, x, j - 1)
         IN  IF below = << >> THEN << >> ELSE DictGet(parents, below[1])

\* child - ancestor
GapRow(child, ancestor) ==
    [v \in DOMAIN genders |->
        IF v = child THEN 1 ELSE IF v = ancestor THEN -1 ELSE 0]

\* the rows of the ancestors at the distances 5..farthest
ChainRows(parents, avg5, avg10, farthest) ==
    {<<GapRow(x, NthAncestor(parents, x, j)[1]),
       IF j <= 9 THEN Min(avg5 * j, avg10 * 10) ELSE avg10 * j>> :
        <<x, j>> \in {p \in (DOMAIN genders) \X (5..farthest) :
                         NthAncestor(parents, p[1], p[2]) # << >>}}

ExpectedAverageRows(farthest) ==
    ChainRows(fathers, MAX_AVERAGE_AGE_FOR_05_MALE_GENERATIONS,
              MAX_AVERAGE_AGE_FOR_10_MALE_GENERATIONS, farthest)
    \cup ChainRows(mothers, MAX_AVERAGE_AGE_FOR_05_FEMALE_GENERATIONS,
                   MAX_AVERAGE_AGE_FOR_10_FEMALE_GENERATIONS, farthest)

C10_AverageRows_AsClaimed ==
    AverageReturned =>
        /\ SeqRange(AverageRows) = ExpectedAverageRows(10)
        /\ Len(AverageRows) = Cardinality(ExpectedAverageRows(10))

(***************************************************************************)
(* C10 as amended.  With the average-age constraints enabled,              *)
(* make_average_constraints walks each variable's father-only and          *)
(* mother-only chain up to the first ancestor missing from the parent map, *)
(* with no limit of 10 steps: a row                                        *)
(* child - ancestor <= min(avg5 * j, avg10 * 10) for each ancestor at      *)
(* distance j in 5..9, a row child - ancestor <= avg10 * j for each        *)
(* ancestor at every distance j >= 10, and no row for an ancestor at a     *)
(* distance below 5.                                                       *)
(***************************************************************************)
C10_AverageRows ==
    AverageReturned =>
        LET farthest == Cardinality(DOMAIN genders)
        IN  /\ SeqRange(AverageRows) = ExpectedAverageRows(farthest)
            /\ Len(AverageRows) = Cardinality(ExpectedAverageRows(farthest))

C10_Witness ==
    /\ AverageReturned
    /\ \E r \in DOMAIN AverageRows : AverageRows[r] = <<GapRow(11, 0), 495>>
    /\ \E r \in DOMAIN AverageRows : AverageRows[r] = <<GapRow(9, 0), 450>>
=============================================================================
